---- MODULE Spec2Model ----
(***************************************************************************)
(* Model of the FinTrack dashboard client.  The repository holds two       *)
(* variants of the client: src/frontend/src/App.js ("app") and the later   *)
(* one embedded in src/README.md ("readme"), which adds the free-text      *)
(* symbol form and the financial-statement view.  The variable `variant`   *)
(* says which of the two runs; every action is translated from the code of *)
(* that variant.                                                           *)
(*                                                                         *)
(* JS values: null/undefined is the empty sequence <<>> and a present      *)
(* value v is <<v>>.  Strings the code transforms (upper-casing, substring *)
(* search, lexicographic sort) are sequences of characters.                *)
(***************************************************************************)
EXTENDS Integers, Sequences, FiniteSets, TLC

\* ------------------------------------------------------------------ bounds
\* At most this many quote+history requests are issued in one behaviour.
MaxRequests == 2
\* At most this many financials requests are issued in one behaviour.
MaxFinRequests == 2
\* The user clicks the period buttons from '1y' on: this many of them.
MaxPeriods == 2
\* Longest price history of the quote specification.
MaxHist == 3
\* Most line items of a financial statement of the table specification.
MaxRows == 2

\* ------------------------------------------------------------- JS helpers
null == <<>>
Some(v) == <<v>>

Min(a, b) == IF a < b THEN a ELSE b
Abs(n) == IF n < 0 THEN -n ELSE n

LowerChars == <<"c", "e", "i", "n", "r", "t">>
UpperChars == <<"C", "E", "I", "N", "R", "T">>

\* toUpperCase left out: the text is selected as typed.
toUpperCase_AsTyped(s) == s

\* String.prototype.toUpperCase / toLowerCase, character by character.
toUpperCase(s) ==
    [k \in 1..Len(s) |->
        IF \E j \in 1..Len(LowerChars) : LowerChars[j] = s[k]
        THEN UpperChars[CHOOSE j \in 1..Len(LowerChars) : LowerChars[j] = s[k]]
        ELSE s[k]]

toLowerCase(s) ==
    [k \in 1..Len(s) |->
        IF \E j \in 1..Len(UpperChars) : UpperChars[j] = s[k]
        THEN LowerChars[CHOOSE j \in 1..Len(UpperChars) : UpperChars[j] = s[k]]
        ELSE s[k]]

\* String.prototype.includes: t occurs in s as a substring.
includes(s, t) ==
    \E k \in 0..(Len(s) - Len(t)) : SubSeq(s, k + 1, k + Len(t)) = t

\* Number.prototype.toFixed(2) of n/d, as an integer count of hundredths
\* (round half away from zero); d > 0.
toFixed2(n, d) ==
    LET q == (2 * Abs(n) * 100 + d) \div (2 * d)
    IN  IF n < 0 THEN -q ELSE q

\* ------------------------------------------------------------ the server
\* GET /api/stocks: the curated list, a JSON array of {label, value}.
Reliance == [label |-> <<"R", "e">>, value |-> <<"R", "E">>, src |-> "list"]
Tcs == [label |-> <<"T", "c">>, value |-> <<"T", "C">>, src |-> "list"]
StockLists == {<<>>, <<Reliance>>, <<Reliance, Tcs>>}

\* What the user types in the symbol form and in the filter box.
CustomTexts == {<<>>, <<"i", "n">>}
SearchTerms == {<<>>, <<"t">>}

\* Controls: the period buttons, in order; '1y' is the initial period.
periods == <<"1mo", "3mo", "6mo", "1y", "5y", "max">>
InitialPeriod == "1y"
ClickedPeriods ==
    LET first == CHOOSE k \in 1..Len(periods) : periods[k] = InitialPeriod
    IN  {periods[k] : k \in first..Min(Len(periods), first + MaxPeriods - 1)}

\* Quote snapshot: a mapping of a subset of these fields (all optional).
NumFields == {"currentPrice", "dayHigh", "dayLow", "fiftyTwoWeekHigh", "fiftyTwoWeekLow"}
StrFields == {"shortName", "sector", "currency"}
InfoFields == NumFields \cup StrFields
FieldValue(f) ==
    IF f \in NumFields THEN 100
    ELSE IF f = "shortName" THEN <<"N">>
    ELSE IF f = "sector" THEN <<"S">>
    ELSE <<"I">>
InfoWith(fields) == [f \in fields |-> FieldValue(f)]

\* History point: only close and volume are read by the client.
Closes == {8, 10, 12}
Point(c) == [close |-> c, volume |-> 1000]
HistoriesOfLen(n) == [1..n -> {Point(c) : c \in Closes}]
Histories == UNION {HistoriesOfLen(n) : n \in 0..MaxHist}

\* GET /api/stock/{symbol}?period=...: {symbol, info, history}.
\* (symbol and period are filled in from the request that is answered.)
Payload(info, history) == [info |-> info, history |-> history]
Answer(r, payload) ==
    [symbol |-> r.value, period |-> r.period,
     info |-> payload.info, history |-> payload.history]
\* The payloads of the client specification: a complete answer, and an
\* answer with every optional field absent and no history.
FullPayload == Payload(InfoWith(InfoFields), <<Point(10), Point(12)>>)
BarePayload == Payload(InfoWith({}), <<>>)
NoPricePayload == Payload(InfoWith(InfoFields \ {"currentPrice"}), <<Point(12), Point(10)>>)
ClientPayloads == {FullPayload, BarePayload, NoPricePayload}
\* The payloads of the quote specification: every subset of the fields
\* with every history up to MaxHist points.
QuotePayloads == {Payload(InfoWith(fs), h) : fs \in SUBSET InfoFields, h \in Histories}

\* GET /api/stock/{symbol}/financials: three statements, each a mapping
\* row name -> {period-end date -> value or null}.  A statement is the
\* sequence of its rows in key order; a row's cells are a function on the
\* dates the row has.  Dates are ISO strings, as the service serialises them.
D2022Mar == <<"2", "0", "2", "2", "-", "0", "3", "-", "3", "1">>
D2022Dec == <<"2", "0", "2", "2", "-", "1", "2", "-", "3", "1">>
D2023Mar == <<"2", "0", "2", "3", "-", "0", "3", "-", "3", "1">>
DateKeys == {D2022Mar, D2022Dec, D2023Mar}
CellValues == {null, Some(5)}
RowNames == <<"Revenue", "Cost", "Tax">>
RowCells == UNION {[ds -> CellValues] : ds \in SUBSET DateKeys}
Row(name, cells) == [name |-> name, cells |-> cells]
\* Statements of n rows: distinct names (they are object keys), any cells.
StatementsOfLen(n) ==
    {st \in [1..n -> {Row(RowNames[k], c) : k \in 1..Len(RowNames), c \in RowCells}] :
        \A a, b \in 1..n : a # b => st[a].name # st[b].name}
Statements == UNION {StatementsOfLen(n) : n \in 0..Min(MaxRows, Len(RowNames))}
FinPayload(income) ==
    [income_statement |-> income, balance_sheet |-> <<>>, cash_flow |-> <<>>]
\* The financials of the client specification: two rows with different dates.
ClientStatement ==
    <<Row("Revenue", (D2023Mar :> Some(5)) @@ (D2022Mar :> null)),
      Row("Cost", (D2022Dec :> Some(5)))>>
ClientFinPayloads == {FinPayload(ClientStatement)}
TablePayloads == {FinPayload(st) : st \in Statements}
Tabs == {"income_statement", "balance_sheet", "cash_flow"}

\* ------------------------------------------------------- string ordering
\* UTF-16 code units of the characters of a date key.
DateChars == <<"-", "0", "1", "2", "3", "4", "5", "6", "7", "8", "9">>
CharCode(c) == CHOOSE k \in 1..Len(DateChars) : DateChars[k] = c
DigitOf(c) == CharCode(c) - 2

\* a < b as Array.prototype.sort compares strings: by code unit, a proper
\* prefix first.
RECURSIVE StrLess(_, _)
StrLess(a, b) ==
    IF Len(b) = 0 THEN FALSE
    ELSE IF Len(a) = 0 THEN TRUE
    ELSE IF CharCode(a[1]) # CharCode(b[1]) THEN CharCode(a[1]) < CharCode(b[1])
    ELSE StrLess(Tail(a), Tail(b))

\* Array.prototype.sort() of a set of distinct keys.
RECURSIVE sort(_)
sort(S) ==
    IF S = {} THEN <<>>
    ELSE LET m == CHOOSE x \in S : \A y \in S \ {x} : StrLess(x, y)
         IN  <<m>> \o sort(S \ {m})

\* Array.prototype.reverse().
reverse_Missing(s) == s
reverse(s) == [k \in 1..Len(s) |-> s[Len(s) + 1 - k]]

\* new Date(key): the calendar day an ISO key denotes, as yyyymmdd.
DateOf(key) ==
    LET n(k) == DigitOf(key[k])
    IN  (n(1) * 1000 + n(2) * 100 + n(3) * 10 + n(4)) * 10000
        + (n(6) * 10 + n(7)) * 100 + (n(9) * 10 + n(10))

\* ------------------------------------------------------------- rendering
\* JS truthiness of an optional number and of an optional string.
Truthy(v) == v # null /\ v[1] # 0
TruthyStr(v) == v # null /\ v[1] # <<>>
\* obj.f of a JSON object: undefined when the key is absent.
Get(obj, f) == IF f \in DOMAIN obj THEN Some(obj[f]) ELSE null

Placeholder == <<"-">>

\* StatCard: value ? prefix + value.toLocaleString() : '-'.
StatCard(label, value, prefix) ==
    [label |-> label,
     text |-> IF Truthy(value) THEN <<prefix, value[1]>> ELSE Placeholder]

\* FinancialTable: the header's date columns come from the first row only,
\* sorted as strings and reversed; every row gets one cell per column.
FinancialTable(data) ==
    IF Len(data) = 0 THEN [kind |-> "nodata", rows |-> <<>>, columns |-> <<>>, cells |-> <<>>]
    ELSE
        LET rows == [k \in 1..Len(data) |-> data[k].name]
            firstRow == data[1].cells
            availableDates == reverse(sort(DOMAIN firstRow))
        IN  [kind |-> "table",
             rows |-> rows,
             columns |-> availableDates,
             cells |-> [k \in 1..Len(data) |->
                          [c \in 1..Len(availableDates) |->
                              LET v == Get(data[k].cells, availableDates[c])
                              IN  IF v # null /\ Truthy(v[1]) THEN <<"", v[1][1]>>
                                  ELSE Placeholder]]]

\* Financials: the spinner while loading, nothing without data, else the
\* table of the active tab.
Financials(fin) ==
    IF fin.loading THEN [kind |-> "spinner", tab |-> fin.activeTab, table |-> FinancialTable(<<>>)]
    ELSE IF fin.financials = null
    THEN [kind |-> "none", tab |-> fin.activeTab, table |-> FinancialTable(<<>>)]
    ELSE [kind |-> "tabs", tab |-> fin.activeTab,
          table |-> FinancialTable(fin.financials[1][fin.activeTab])]

NoChange == [kind |-> "null", change |-> 0, num |-> 0, den |-> 1]

\* getPriceChange of src/frontend/src/App.js: null without a truthy
\* currentPrice and dayHigh, the number 0 under two history points.
getPriceChangeApp(stockData) ==
    IF stockData = null
       \/ ~Truthy(Get(stockData[1].info, "currentPrice"))
       \/ ~Truthy(Get(stockData[1].info, "dayHigh"))
    THEN NoChange
    ELSE IF Len(stockData[1].history) < 2 THEN [NoChange EXCEPT !.kind = "zero"]
    ELSE LET history == stockData[1].history
             first == history[1].close
             last == history[Len(history)].close
             change == last - first
         IN  [kind |-> "object", change |-> change, num |-> change * 100, den |-> first]

\* getPriceChange of the README variant: null under two history points
\* (info is always an object in the service's answers).
getPriceChangeReadme(stockData) ==
    IF stockData = null \/ Len(stockData[1].history) < 2 THEN NoChange
    ELSE LET history == stockData[1].history
             first == history[1].close
             last == history[Len(history)].close
             change == last - first
         IN  [kind |-> "object", change |-> change, num |-> change * 100, den |-> first]

getPriceChange_DayChange(v, stockData) ==
    IF stockData = null \/ Len(stockData[1].history) < 2 THEN NoChange
    ELSE LET history == stockData[1].history
             previous == history[Len(history) - 1].close
             last == history[Len(history)].close
             change == last - previous
         IN  [kind |-> "object", change |-> change, num |-> change * 100, den |-> previous]

getPriceChange(v, stockData) ==
    IF v = "app" THEN getPriceChangeApp(stockData) ELSE getPriceChangeReadme(stockData)

\* {priceChange && (<div className=...>...)}: null renders nothing, the
\* number 0 renders the text "0", an object renders the styled block.
PriceChangeBlock(priceChange, period) ==
    IF priceChange.kind = "null"
    THEN [shown |-> "nothing", class |-> "", prefix |-> "", change |-> 0, percent |-> 0, period |-> period]
    ELSE IF priceChange.kind = "zero"
    THEN [shown |-> "0", class |-> "", prefix |-> "", change |-> 0, percent |-> 0, period |-> period]
    ELSE [shown |-> "block",
          class |-> IF priceChange.change >= 0 THEN "positive" ELSE "negative",
          prefix |-> IF priceChange.change >= 0 THEN "+" ELSE "",
          change |-> toFixed2(priceChange.change, 1),
          percent |-> toFixed2(priceChange.num, priceChange.den),
          period |-> period]

\* The current-price span.  App.js: currentPrice?.toLocaleString(), blank when
\* absent.  README: ... || history[history.length - 1].close.toFixed(2).
CurrentPriceThrows(v, stockData) ==
    /\ v = "readme"
    /\ Get(stockData.info, "currentPrice") = null
    /\ Len(stockData.history) = 0

CurrentPrice(v, stockData) ==
    LET cp == Get(stockData.info, "currentPrice")
    IN  IF cp # null THEN <<"Rs", cp[1]>>
        ELSE IF v = "app" THEN <<"Rs">>
        ELSE <<"Rs", toFixed2(stockData.history[Len(stockData.history)].close, 1)>>

\* stockData.info.shortName || selectedStock.label
TitleThrows(selectedStock, stockData) ==
    ~TruthyStr(Get(stockData.info, "shortName")) /\ selectedStock = null

Title(selectedStock, stockData) ==
    IF TruthyStr(Get(stockData.info, "shortName")) THEN stockData.info.shortName
    ELSE selectedStock[1].label

\* history[history.length - 1]?.volume
LastVolume(history) == IF Len(history) = 0 THEN null ELSE Some(history[Len(history)].volume)

StatsGrid(stockData) ==
    <<StatCard("High (Day)", Get(stockData.info, "dayHigh"), "Rs"),
      StatCard("Low (Day)", Get(stockData.info, "dayLow"), "Rs"),
      StatCard("52W High", Get(stockData.info, "fiftyTwoWeekHigh"), "Rs"),
      StatCard("52W Low", Get(stockData.info, "fiftyTwoWeekLow"), "Rs"),
      StatCard("Volume", LastVolume(stockData.history), "")>>

Blank(main) == [main |-> main, content |-> null]

\* The main content of App: the spinner while loading with no data, the
\* stock content when data is held, else the invitation to select a stock.
\* A render that throws unmounts the whole tree ("crashed").
AppRender(v, selectedStock, stockData, loading, period, showFinancials, fin) ==
    IF loading /\ stockData = null THEN Blank("spinner")
    ELSE IF stockData = null THEN Blank("empty")
    ELSE IF \/ TitleThrows(selectedStock, stockData[1])
            \/ CurrentPriceThrows(v, stockData[1])
            \/ (v = "readme" /\ showFinancials /\ selectedStock = null)
    THEN Blank("crashed")
    ELSE [main |-> "content",
          content |-> Some(
            [title |-> Title(selectedStock, stockData[1]),
             symbol |-> stockData[1].symbol,
             sector |-> Get(stockData[1].info, "sector"),
             currency |-> Get(stockData[1].info, "currency"),
             price |-> CurrentPrice(v, stockData[1]),
             priceChange |-> PriceChangeBlock(getPriceChange(v, stockData), period),
             chart |-> [k \in 1..Len(stockData[1].history) |-> stockData[1].history[k].close],
             stats |-> StatsGrid(stockData[1]),
             financials |-> IF v = "readme" /\ showFinancials
                            THEN Some(Financials(fin)) ELSE null])]

\* ----------------------------------------------------------------- state
VARIABLES
    variant,         \* "app" (src/frontend/src/App.js) or "readme" (src/README.md)
    stocks,          \* useState([])
    selectedStock,   \* useState(null): null or <<{label, value}>>
    customStock,     \* useState(''), README variant
    stockData,       \* useState(null): null or <<the answer held>>
    loading,         \* useState(false)
    searchTerm,      \* useState('')
    period,          \* useState('1y')
    showFinancials,  \* useState(false), README variant
    fin,             \* state of the mounted Financials component, README variant
    listReq,         \* the GET /api/stocks of the mount effect: pending, ok, failed
    inflight,        \* quote+history requests issued and not yet answered
    issued,          \* how many quote+history requests were issued
    finInflight,     \* financials requests issued and not yet answered
    finIssued,       \* how many financials requests were issued
    errors,          \* how many console.error calls were made
    view             \* what the last render committed

vars == <<variant, stocks, selectedStock, customStock, stockData, loading, searchTerm,
          period, showFinancials, fin, listReq, inflight, issued, finInflight,
          finIssued, errors, view>>

\* Financials' own state at mount; inst tells the mounted instance (0: none),
\* fetchedFor the symbol in the URL of the request whose res.data is held.
FinInit ==
    [financials |-> null, loading |-> FALSE, activeTab |-> "income_statement", inst |-> 0,
     fetchedFor |-> null]

Init ==
    /\ variant \in {"app", "readme"}
    /\ stocks = <<>>
    /\ selectedStock = null
    /\ customStock = <<>>
    /\ stockData = null
    /\ loading = FALSE
    /\ searchTerm = <<>>
    /\ period = InitialPeriod
    /\ showFinancials = FALSE
    /\ fin = FinInit
    /\ listReq = "pending"
    /\ inflight = {}
    /\ issued = 0
    /\ finInflight = {}
    /\ finIssued = 0
    /\ errors = 0
    /\ view = Blank("empty")

crashed == view.main = "crashed"
FinancialsMounted == fin.inst # 0

\* Every state update ends in a render of the new state; once a render has
\* thrown, the tree is unmounted and nothing renders again.
Commit ==
    view' = AppRender(variant, selectedStock', stockData', loading', period',
                      showFinancials', fin')

\* The request of the stock data effect: axios.get(`/api/stock/${value}?period=${period}`).
StockRequest(id, sel, p) == [id |-> id, value |-> sel.value, period |-> p]

\* The effect returns no cleanup function: the requests issued before stay in
\* flight next to the new one.
IssueRequest_Aborts(pending, req) == {req}
IssueRequest(pending, req) == pending \cup {req}

\* What the stock data effect does to showFinancials: the README variant
\* resets it, App.js has no such state.
ResetFinancials_Kept(v, shown) == shown
ResetFinancials(v, shown) == IF v = "readme" THEN FALSE ELSE shown

\* The request of the Financials effect: axios.get(`/api/stock/${symbol}/financials`).
FinRequest(id, symbol, inst) == [id |-> id, symbol |-> symbol, inst |-> inst]

\* The Financials effect runs again when its symbol prop changes while it is
\* mounted; child effects run before the parent's, so the request goes out
\* before the stock data effect hides the view.
FinSymbolChanges(newSel) ==
    /\ FinancialsMounted
    /\ selectedStock # null
    /\ newSel.value # selectedStock[1].value

StockDataEffect_Discards(newSel, newPeriod) ==
    /\ selectedStock' = Some(newSel)
    /\ period' = newPeriod
    /\ issued < MaxRequests
    /\ loading' = TRUE
    /\ showFinancials' = ResetFinancials(variant, showFinancials)
    /\ issued' = issued + 1
    /\ inflight' = IssueRequest(inflight, StockRequest(issued + 1, newSel, newPeriod))
    /\ IF FinSymbolChanges(newSel)
       THEN /\ finIssued < MaxFinRequests
            /\ finIssued' = finIssued + 1
            /\ finInflight' = finInflight \cup {FinRequest(finIssued + 1, newSel.value, fin.inst)}
       ELSE UNCHANGED <<finIssued, finInflight>>
    /\ fin' = FinInit
    /\ stockData' = null

\* A render with a new selectedStock object or a new period, followed by the
\* effects it triggers.
StockDataEffect(newSel, newPeriod) ==
    /\ selectedStock' = Some(newSel)
    /\ period' = newPeriod
    /\ issued < MaxRequests
    /\ loading' = TRUE
    /\ showFinancials' = ResetFinancials(variant, showFinancials)
    /\ issued' = issued + 1
    /\ inflight' = IssueRequest(inflight, StockRequest(issued + 1, newSel, newPeriod))
    /\ IF FinSymbolChanges(newSel)
       THEN /\ finIssued < MaxFinRequests
            /\ finIssued' = finIssued + 1
            /\ finInflight' = finInflight \cup {FinRequest(finIssued + 1, newSel.value, fin.inst)}
       ELSE UNCHANGED <<finIssued, finInflight>>
    /\ fin' = FinInit
    /\ stockData' = stockData

\* ------------------------------------------------------------ mount effect
\* res.data[0]: the default selection.
DefaultStock_Last(list) == list[Len(list)]
DefaultStock(list) == list[1]

\* .then of axios.get('/api/stocks'): store the list, default to its first entry.
ListResponseOk(list) ==
    /\ UNCHANGED <<variant, customStock, searchTerm, errors>>
    /\ listReq = "pending"
    /\ listReq' = "ok"
    /\ IF crashed
       THEN UNCHANGED <<stocks, selectedStock, period, loading, showFinancials, issued,
                        inflight, finIssued, finInflight, fin, stockData, view>>
       ELSE /\ stocks' = list
            /\ IF Len(list) > 0
               THEN StockDataEffect(DefaultStock(list), period)
               ELSE UNCHANGED <<selectedStock, period, loading, showFinancials, issued,
                                inflight, finIssued, finInflight, fin, stockData>>
            /\ Commit

\* .catch of axios.get('/api/stocks'): console.error only.
ListResponseFail ==
    /\ listReq = "pending"
    /\ listReq' = "failed"
    /\ errors' = errors + 1
    /\ UNCHANGED <<variant, stocks, selectedStock, customStock, stockData, loading,
                   searchTerm, period, showFinancials, fin, inflight, issued,
                   finInflight, finIssued, view>>

\* ------------------------------------------------------------- user input
\* stocks.filter(s => label or value includes the search term, lower-cased).
filteredStocks ==
    {stocks[k] : k \in {j \in 1..Len(stocks) :
        \/ includes(toLowerCase(stocks[j].label), toLowerCase(searchTerm))
        \/ includes(toLowerCase(stocks[j].value), toLowerCase(searchTerm))}}

\* onClick of a ticker item: setSelectedStock(stock).  Setting the object
\* already held is no state change.
ClickTicker(stock) ==
    /\ UNCHANGED <<variant, stocks, customStock, searchTerm, listReq, errors>>
    /\ ~crashed
    /\ stock \in filteredStocks
    /\ selectedStock # Some(stock)
    /\ StockDataEffect(stock, period)
    /\ Commit

\* onClick of a period button (Controls is part of the stock content).
SetPeriod(p) ==
    /\ UNCHANGED <<variant, stocks, customStock, searchTerm, listReq, errors>>
    /\ ~crashed
    /\ view.main = "content"
    /\ p # period
    /\ IF selectedStock = null
       THEN /\ period' = p
            /\ UNCHANGED <<selectedStock, loading, showFinancials, issued, inflight,
                           finIssued, finInflight, fin, stockData>>
       ELSE StockDataEffect(selectedStock[1], p)
    /\ Commit

\* onChange of the filter box.
SetSearchTerm(t) ==
    /\ ~crashed
    /\ t # searchTerm
    /\ searchTerm' = t
    /\ UNCHANGED <<variant, stocks, selectedStock, customStock, stockData, loading, period,
                   showFinancials, fin, listReq, inflight, issued, finInflight,
                   finIssued, errors, view>>

\* onChange of the symbol form's input (README variant).
SetCustomStock(t) ==
    /\ ~crashed
    /\ variant = "readme"
    /\ t # customStock
    /\ customStock' = t
    /\ UNCHANGED <<variant, stocks, selectedStock, stockData, loading, searchTerm, period,
                   showFinancials, fin, listReq, inflight, issued, finInflight,
                   finIssued, errors, view>>

\* handleCustomSubmit (README variant): a fresh {label, value} object of the
\* upper-cased text, so the stock data effect always runs; nothing on ''.
handleCustomSubmit ==
    /\ UNCHANGED <<variant, stocks, customStock, listReq, errors>>
    /\ ~crashed
    /\ variant = "readme"
    /\ IF customStock # <<>>
       THEN LET symbol == toUpperCase(customStock)
            IN  /\ StockDataEffect([label |-> symbol, value |-> symbol, src |-> "custom"], period)
                /\ searchTerm' = <<>>
                /\ Commit
       ELSE UNCHANGED <<selectedStock, period, loading, showFinancials, issued, inflight,
                        finIssued, finInflight, fin, stockData, searchTerm, view>>

\* ------------------------------------------------------- stock data effect
\* .then: setStockData(res.data); setLoading(false).  The response is applied
\* whatever was selected since the request went out.
StockResponseOk(r, payload) ==
    /\ UNCHANGED <<variant, stocks, selectedStock, customStock, searchTerm, period,
                   showFinancials, fin, listReq, issued, finInflight, finIssued, errors>>
    /\ r \in inflight
    /\ inflight' = inflight \ {r}
    /\ IF crashed
       THEN UNCHANGED <<stockData, loading, view>>
       ELSE /\ stockData' = Some(Answer(r, payload))
            /\ loading' = FALSE
            /\ Commit

\* .catch: console.error; setLoading(false).  stockData is left as it is.
LoadingAfterCatch_Stuck == TRUE
LoadingAfterCatch == FALSE

StockResponseFail(r) ==
    /\ UNCHANGED <<variant, stocks, selectedStock, customStock, stockData, searchTerm,
                   period, showFinancials, fin, listReq, issued, finInflight, finIssued>>
    /\ r \in inflight
    /\ inflight' = inflight \ {r}
    /\ errors' = errors + 1
    /\ IF crashed
       THEN UNCHANGED <<loading, view>>
       ELSE /\ loading' = LoadingAfterCatch
            /\ Commit

\* -------------------------------------------------------------- financials
\* onClick of the financials button: setShowFinancials(!showFinancials).
\* Showing mounts a new Financials, whose effect asks for the selected symbol.
ToggleFinancials ==
    /\ UNCHANGED <<variant, stocks, selectedStock, customStock, stockData, loading,
                   searchTerm, period, listReq, inflight, issued, errors>>
    /\ ~crashed
    /\ variant = "readme"
    /\ view.main = "content"
    /\ showFinancials' = ~showFinancials
    /\ IF ~showFinancials
       THEN /\ finIssued < MaxFinRequests
            /\ finIssued' = finIssued + 1
            /\ fin' = [FinInit EXCEPT !.loading = TRUE, !.inst = finIssued + 1]
            /\ finInflight' = finInflight
                    \cup {FinRequest(finIssued + 1, selectedStock[1].value, finIssued + 1)}
       ELSE /\ fin' = FinInit
            /\ UNCHANGED <<finIssued, finInflight>>
    /\ Commit

\* The answer is taken by whatever Financials is mounted.
FinStillMounted_AnyInstance(r) == ~crashed /\ FinancialsMounted

\* The component that asked is still the mounted one.
FinStillMounted(r) == ~crashed /\ FinancialsMounted /\ r.inst = fin.inst

\* .then of the Financials effect: setFinancials(res.data); setLoading(false).
\* State updates of an unmounted component are dropped.
FinResponseOk(r, payload) ==
    /\ UNCHANGED <<variant, stocks, selectedStock, customStock, stockData, loading,
                   searchTerm, period, showFinancials, listReq, inflight, issued,
                   finIssued, errors>>
    /\ r \in finInflight
    /\ finInflight' = finInflight \ {r}
    /\ IF FinStillMounted(r)
       THEN /\ fin' = [fin EXCEPT !.financials = Some(payload), !.loading = FALSE,
                                   !.fetchedFor = Some(r.symbol)]
            /\ Commit
       ELSE UNCHANGED <<fin, view>>

\* .catch of the Financials effect: console.error; setLoading(false).
FinResponseFail(r) ==
    /\ UNCHANGED <<variant, stocks, selectedStock, customStock, stockData, loading,
                   searchTerm, period, showFinancials, listReq, inflight, issued,
                   finIssued>>
    /\ r \in finInflight
    /\ finInflight' = finInflight \ {r}
    /\ errors' = errors + 1
    /\ IF FinStillMounted(r)
       THEN /\ fin' = [fin EXCEPT !.loading = FALSE]
            /\ Commit
       ELSE UNCHANGED <<fin, view>>

\* onClick of a tab button (rendered once the financials are there).
SetActiveTab(t) ==
    /\ UNCHANGED <<variant, stocks, selectedStock, customStock, stockData, loading,
                   searchTerm, period, showFinancials, listReq, inflight, issued,
                   finInflight, finIssued, errors>>
    /\ ~crashed
    /\ FinancialsMounted
    /\ ~fin.loading
    /\ fin.financials # null
    /\ t # fin.activeTab
    /\ fin' = [fin EXCEPT !.activeTab = t]
    /\ Commit

\* ---------------------------------------------------------- specifications
ListOk == \E list \in StockLists : ListResponseOk(list)
Click == \E stock \in {Reliance, Tcs} : ClickTicker(stock)
Period == \E p \in ClickedPeriods : SetPeriod(p)
Search == \E t \in SearchTerms : SetSearchTerm(t)
TypeSymbol == \E t \in CustomTexts : SetCustomStock(t)
StockOk == \E r \in inflight, payload \in ClientPayloads : StockResponseOk(r, payload)
StockFail == \E r \in inflight : StockResponseFail(r)
\* (The body of an answer nobody waits for is never read: one stands for all.)
FinAnswers(r, payloads) ==
    IF FinStillMounted(r) THEN payloads ELSE {FinPayload(<<>>)}
FinOk == \E r \in finInflight : \E payload \in FinAnswers(r, ClientFinPayloads) : FinResponseOk(r, payload)
FinFail == \E r \in finInflight : FinResponseFail(r)
Tab == \E t \in Tabs : SetActiveTab(t)

\* The client: every event the user and the network can raise.
Next ==
    \/ ListOk
    \/ ListResponseFail
    \/ Click
    \/ Period
    \/ Search
    \/ TypeSymbol
    \/ handleCustomSubmit
    \/ StockOk
    \/ StockFail
    \/ ToggleFinancials
    \/ FinOk
    \/ FinFail
    \/ Tab

Spec == Init /\ [][Next]_vars

\* The quote specification: the client loads, selects the default symbol and
\* receives its first answer, drawn from every payload of QuotePayloads.
QuoteListOk == ListResponseOk(<<Reliance, Tcs>>)
QuoteOk == \E r \in inflight, payload \in QuotePayloads : StockResponseOk(r, payload)
NextQuote == QuoteListOk \/ QuoteOk
SpecQuote == Init /\ [][NextQuote]_vars

\* The table specification: the client loads, shows a complete quote and
\* opens the financial statements, drawn from every payload of TablePayloads.
TableListOk == ListResponseOk(<<Reliance, Tcs>>)
TableStockOk == \E r \in inflight : StockResponseOk(r, FullPayload)
TableToggle == ToggleFinancials
TableFinOk == \E r \in finInflight : \E payload \in FinAnswers(r, TablePayloads) : FinResponseOk(r, payload)
NextTable == TableListOk \/ TableStockOk \/ TableToggle \/ TableFinOk
SpecTable == Init /\ [][NextTable]_vars

\* ------------------------------------------------ in-order specification
\* The network answers the quote+history requests in the order they were
\* issued: the next answer is the one of the oldest request in flight.
NextInOrder(pending) == CHOOSE r \in pending : \A q \in pending : r.id <= q.id

OrderedOk ==
    /\ inflight # {}
    /\ \E payload \in ClientPayloads : StockResponseOk(NextInOrder(inflight), payload)

\* The client with every quote+history request answered successfully and in
\* order, each answer arriving eventually; the user selects, types, submits
\* and changes the period as in Spec.
NextOrdered ==
    \/ ListOk
    \/ ListResponseFail
    \/ Click
    \/ Period
    \/ TypeSymbol
    \/ handleCustomSubmit
    \/ OrderedOk

SpecOrdered == Init /\ [][NextOrdered]_vars /\ WF_vars(OrderedOk)

\* ------------------------------------------------------------------ claims
Stale ==
    /\ stockData # null
    /\ selectedStock # null
    /\ (stockData[1].symbol # selectedStock[1].value \/ stockData[1].period # period)

\* The step answers the quote+history request r, successfully or not.
Answered(r) == r \in inflight /\ inflight' = inflight \ {r}
Failed(r) == Answered(r) /\ errors' = errors + 1
Succeeded(r) == Answered(r) /\ errors' = errors

\* C1: a quote+history request is never aborted when the selected symbol or
\* the period changes (every request in flight before the change is still in
\* flight after it), and a successful answer is applied to stockData whatever
\* is selected when it arrives; so answers arriving out of order leave stale
\* data displayed with nothing in flight (the witness).
C1_NeverAborted ==
    [][/\ (selectedStock' # selectedStock \/ period' # period) => inflight \subseteq inflight'
       /\ \A r \in inflight :
            Succeeded(r) /\ ~crashed =>
                /\ stockData' # null
                /\ stockData'[1].symbol = r.value
                /\ stockData'[1].period = r.period]_vars

\* Two requests were issued, every answer succeeded, none is in flight, and
\* the data displayed is not the one of the current (symbol, period).
C1_StaleDisplayed ==
    /\ issued = 2
    /\ errors = 0
    /\ inflight = {}
    /\ ~loading
    /\ view.main = "content"
    /\ Stale

\* C2: every change of the selected symbol or of the period, while a symbol
\* is selected, issues exactly one quote+history request, for the new
\* (symbol, period) pair, and hides the financial-statement view; while no
\* symbol is selected no request is or was issued.
C2_OneRequestPerChange ==
    [][/\ (selectedStock' # selectedStock \/ period' # period) /\ selectedStock' # null =>
            /\ issued' = issued + 1
            /\ inflight' = inflight \cup {StockRequest(issued', selectedStock'[1], period')}
            /\ inflight' # inflight
            /\ showFinancials' = FALSE
       /\ selectedStock' = null => issued' = 0 /\ inflight' = {}]_vars

\* The period was changed while the financial statements were shown: the
\* request for the new pair is in flight and the view is hidden.
C2_ChangedWhileShown ==
    /\ variant = "readme"
    /\ period # InitialPeriod
    /\ finIssued > 0
    /\ fin.inst = 0
    /\ ~showFinancials
    /\ selectedStock # null
    /\ StockRequest(issued, selectedStock[1], period) \in inflight

\* C3: the client issues one symbol-list request on load; when it succeeds
\* with a non-empty list, the first entry becomes the selected symbol and the
\* period is left as it is (the initial '1y' when nothing was selected
\* before); when it fails or returns an empty list the selection is left as
\* it is (empty when nothing was selected before) and the stored list is
\* unchanged or empty.
C3_DefaultSelection ==
    [][/\ listReq = "pending" /\ listReq' # "pending" /\ ~crashed =>
            IF listReq' = "ok" /\ Len(stocks') > 0
            THEN selectedStock' = Some(stocks'[1]) /\ period' = period
            ELSE /\ selectedStock' = selectedStock
                 /\ issued' = issued
                 /\ (stocks' = stocks \/ stocks' = <<>>)
       /\ listReq # "pending" => listReq' = listReq
       /\ issued' = 0 => selectedStock' = null /\ period' = InitialPeriod]_vars

\* The list of two arrived with nothing selected before: its first entry is
\* selected, the period is the initial one.
C3_FirstEntrySelected ==
    /\ listReq = "ok"
    /\ Len(stocks) = 2
    /\ issued = 1
    /\ selectedStock = Some(stocks[1])
    /\ period = InitialPeriod

\* C4 (as stated): when a quote+history request fails, the client logs the
\* error, issues no retry, sets the loading flag to false and shows the
\* generic loading/empty state, with no stock content.
C4_EmptyStateAfterFailure ==
    [][\A r \in inflight :
        Failed(r) /\ ~crashed =>
            /\ issued' = issued
            /\ ~loading'
            /\ view'.main \in {"spinner", "empty"}]_vars

\* C4 (amended): when a quote+history request fails, the client logs the
\* error, issues no retry, sets the loading flag to false and leaves the held
\* stock data as it is: it shows the generic empty state only when no stock
\* data is held, and otherwise keeps showing the stock content held.
C4_FailureKeepsHeldData ==
    [][\A r \in inflight :
        Failed(r) /\ ~crashed =>
            /\ errors' = errors + 1
            /\ issued' = issued
            /\ inflight' \subseteq inflight
            /\ ~loading'
            /\ stockData' = stockData
            /\ view'.main = IF stockData = null THEN "empty" ELSE "content"]_vars

\* The only request for the current selection failed and the content of the
\* previous selection is still displayed.
C4_FailedWithStaleContent ==
    /\ errors = 1
    /\ listReq = "ok"
    /\ finIssued = 0
    /\ inflight = {}
    /\ ~loading
    /\ view.main = "content"
    /\ stockData[1].symbol # selectedStock[1].value

\* C5 (as stated): once the selection has changed, the client no longer holds
\* the stock data fetched for the previous selection: the data held is always
\* the one of the selected symbol.
C5_DiscardedOnChange ==
    stockData # null /\ selectedStock # null =>
        stockData[1].symbol = selectedStock[1].value

\* C5 (amended): a change of the selection leaves the held stock data as it
\* is; the data held is replaced only by the data of a quote+history request
\* that succeeds, whichever selection it was issued for.
C5_ReplacedOnSuccessOnly ==
    [][/\ (selectedStock' # selectedStock \/ period' # period) => stockData' = stockData
       /\ stockData' # stockData =>
            \E r \in inflight :
                /\ Succeeded(r)
                /\ stockData'[1].symbol = r.value
                /\ stockData'[1].period = r.period]_vars

\* The selection changed and the data of the previous symbol is still held
\* and displayed while the new request is in flight.
C5_PreviousDataHeld ==
    /\ loading
    /\ inflight # {}
    /\ view.main = "content"
    /\ stockData[1].symbol # selectedStock[1].value

\* The financial statement shown and the table rendered for it.
TableShown ==
    /\ view.main = "content"
    /\ view.content[1].financials # null
    /\ view.content[1].financials[1].kind = "tabs"
    /\ view.content[1].financials[1].table.kind = "table"
ShownStatement == fin.financials[1][fin.activeTab]
ShownTable == view.content[1].financials[1].table
DatesOf(statement) == UNION {DOMAIN statement[k].cells : k \in 1..Len(statement)}

\* C6: the table of a non-empty financial statement has exactly one row per
\* line item and exactly one column per distinct period-end date occurring in
\* any row, and a cell whose (row, date) value is absent shows '-'.
C6_ColumnPerDate ==
    TableShown =>
        LET st == ShownStatement
            t == ShownTable
        IN  /\ t.rows = [k \in 1..Len(st) |-> st[k].name]
            /\ {t.columns[c] : c \in 1..Len(t.columns)} = DatesOf(st)
            /\ Cardinality(DatesOf(st)) = Len(t.columns)
            /\ \A k \in 1..Len(st) : \A c \in 1..Len(t.columns) :
                   t.columns[c] \notin DOMAIN st[k].cells => t.cells[k][c] = Placeholder

\* C10: the period-end date columns of a rendered financial statement table
\* are in descending date order, most recent first.
C10_ColumnsDescending ==
    TableShown =>
        \A a, b \in 1..Len(ShownTable.columns) :
            a < b => DateOf(ShownTable.columns[a]) > DateOf(ShownTable.columns[b])

\* A table of three date columns is displayed.
C10_ThreeColumns == TableShown /\ Len(ShownTable.columns) = 3

\* The price change derived from the history held, as the claims state it:
\* last close - first close, in hundredths, and its percentage of the first
\* close, in hundredths of a percent.
Drift(history) == history[Len(history)].close - history[1].close
ShownChange == view.content[1].priceChange

\* C7: with a history of two or more points the price change displayed is
\* (last close - first close) and its percentage change / first close * 100;
\* with fewer than two points no price change is displayed.
C7_PeriodDrift ==
    view.main = "content" =>
        LET history == stockData[1].history
        IN  IF Len(history) >= 2
            THEN /\ ShownChange.shown = "block"
                 /\ ShownChange.change = Drift(history) * 100
                 /\ ShownChange.percent = toFixed2(Drift(history) * 100, history[1].close)
            ELSE ShownChange.shown = "nothing"

\* C8: whenever a price change is displayed, its styling is positive and its
\* prefix '+' exactly when last close - first close is not negative, and the
\* number displayed has the sign of that difference.
C8_SignMatches ==
    view.main = "content" /\ ShownChange.shown = "block" =>
        LET d == Drift(stockData[1].history)
        IN  /\ Len(stockData[1].history) >= 2
            /\ ShownChange.class = (IF d >= 0 THEN "positive" ELSE "negative")
            /\ ShownChange.prefix = (IF d >= 0 THEN "+" ELSE "")
            /\ (d > 0 => ShownChange.change > 0 /\ ShownChange.percent > 0)
            /\ (d < 0 => ShownChange.change < 0 /\ ShownChange.percent < 0)
            /\ (d = 0 => ShownChange.change = 0 /\ ShownChange.percent = 0)

\* A fall over three points whose last day rose is displayed as negative.
C8_FallShown ==
    /\ view.main = "content"
    /\ ShownChange.shown = "block"
    /\ ShownChange.class = "negative"
    /\ Len(stockData[1].history) = 3
    /\ stockData[1].history[3].close > stockData[1].history[2].close

\* obj.f of the quote snapshot held, for a statistic card.
StatSources == <<"dayHigh", "dayLow", "fiftyTwoWeekHigh", "fiftyTwoWeekLow">>

\* C9: whatever fields of the quote snapshot are absent and whatever the
\* length of the history, rendering a successful answer does not throw, and
\* each absent statistic is shown as '-'.
C9_OptionalFields ==
    stockData # null =>
        /\ view.main = "content"
        /\ \A k \in 1..Len(StatSources) :
               StatSources[k] \notin DOMAIN stockData[1].info =>
                   view.content[1].stats[k].text = Placeholder
        /\ Len(stockData[1].history) = 0 => view.content[1].stats[5].text = Placeholder

\* ------------------------------------------------------- claims C11 to C16
\* u is t with every lower-case letter replaced by its upper-case letter.
UpperCased(t, u) ==
    /\ Len(u) = Len(t)
    /\ \A k \in 1..Len(t) :
         \/ \E j \in 1..Len(LowerChars) : LowerChars[j] = t[k] /\ UpperChars[j] = u[k]
         \/ (\A j \in 1..Len(LowerChars) : LowerChars[j] # t[k]) /\ u[k] = t[k]

\* C11: submitting non-empty free text in the symbol form sets the selected
\* symbol to {label, value}, both the upper-cased text, whether or not the
\* symbol is in the list, and clears the search filter (the text typed, the
\* list and the period are left alone); submitting empty text changes no
\* state and issues no request.
C11_SubmitSelectsUpperCased ==
    [][handleCustomSubmit =>
        IF customStock # <<>>
        THEN /\ selectedStock' # null
             /\ selectedStock'[1].label = selectedStock'[1].value
             /\ UpperCased(customStock, selectedStock'[1].value)
             /\ searchTerm' = <<>>
             /\ UNCHANGED <<customStock, stocks, period>>
        ELSE UNCHANGED vars]_vars

\* The text 'in' was submitted with the list loaded: the symbol 'IN', which
\* no list entry has, is selected and asked for, and the filter is empty.
C11_UnlistedSymbolSelected ==
    /\ customStock = <<"i", "n">>
    /\ listReq = "ok"
    /\ selectedStock # null
    /\ selectedStock[1].label = <<"I", "N">>
    /\ selectedStock[1].value = <<"I", "N">>
    /\ \A k \in 1..Len(stocks) : stocks[k].value # selectedStock[1].value
    /\ Len(stocks) > 0
    /\ searchTerm = <<>>
    /\ \E r \in inflight : r.value = <<"I", "N">>

\* C12: a financials request is issued only by the step in which the user
\* turns the financial-statement view on, exactly one per opening and for
\* the symbol selected; no step that changes the selected symbol or the
\* period issues one, and none is issued on load.
C12_OnDemandOnly ==
    [][/\ finIssued' # finIssued =>
            /\ ~showFinancials /\ showFinancials'
            /\ UNCHANGED <<selectedStock, period>>
       /\ (~showFinancials /\ showFinancials') =>
            /\ finIssued' = finIssued + 1
            /\ \E q \in finInflight' :
                 /\ q \notin finInflight
                 /\ finInflight' = finInflight \cup {q}
                 /\ selectedStock # null
                 /\ q.symbol = selectedStock[1].value
       /\ (selectedStock' # selectedStock \/ period' # period) =>
            finIssued' = finIssued /\ finInflight' = finInflight
       /\ listReq = "pending" => finIssued' = 0]_vars

\* C13: in every reachable state of the mounted client the loading flag is
\* true if at least one quote+history request is in flight and false if
\* none is, including when several requests overlap.
C13_LoadingTracksInflight ==
    ~crashed => (loading <=> inflight # {})

\* The financial-statement tables are on display.
TabsShown(v) ==
    /\ v.main = "content"
    /\ v.content[1].financials # null
    /\ v.content[1].financials[1].kind = "tabs"

\* The step answers the financials request r.
FinAnswered(r) == r \in finInflight /\ finInflight' = finInflight \ {r}

Settled ==
    /\ ~loading
    /\ inflight = {}
    /\ selectedStock # null =>
         /\ stockData # null
         /\ stockData[1].symbol = selectedStock[1].value
         /\ stockData[1].period = period
         /\ view.main = "content"
         /\ view.content[1].symbol = selectedStock[1].value

\* C15: when the user stops changing the symbol and the period and every
\* quote+history request is answered successfully, in the order of issue,
\* then eventually and for ever the loading flag is false and the stock data
\* displayed is the one fetched for the selected (symbol, period).
C15_EventuallySettled == <>[]Settled

\* C16: once the user has selected a symbol, the arrival of the symbol-list
\* response leaves the selection as it is: a selection made by free-text
\* entry before that response is never replaced by the default one.
C16_DefaultKeepsUserSelection ==
    [][(selectedStock # null /\ listReq = "pending" /\ listReq' # "pending") =>
            selectedStock' = selectedStock /\ issued' = issued]_vars

====
